---- MODULE Spec2Model ----
(***************************************************************************)
(* Model of geometry-from-silhouette.py: generate_mesh turns a silhouette  *)
(* (radius per height sample) into the vertex, UV and face lists of a      *)
(* solid of revolution plus a texture mask, and export_ply writes them.    *)
(*                                                                         *)
(* Numbers.  Silhouette samples are fixed-point integers k standing for    *)
(* the float k / SCALE.  Values the code derives by +, -, *, / are exact   *)
(* rationals <<n, d>> in lowest terms with d > 0; <<0, 0>> is the float    *)
(* NaN that numpy yields for 0/0.  Square roots are taken in fixed point   *)
(* (PREC sub-units).  np.cos / np.sin results are symbolic terms, except   *)
(* for the values float64 gives exactly: cos(0) = cos(2*pi/r*r) = 1.0 and  *)
(* sin(0) = 0.0; sin(2*pi/r*r) is the non-zero residual -2.449e-16.        *)
(***************************************************************************)
EXTENDS Integers, Sequences, FiniteSets, TLC

\* Bounds of the explored inputs.
MaxV == 3
MaxR == 4

\* Fixed-point resolution of a silhouette sample and of a square root.
SCALE == 10
PREC == 100

\* pi as PI_NUM / PI_DEN.
PI_NUM == 314159
PI_DEN == 100000

\* Sample values fed to the builder: -0.1, 0, 0.5, 1, 1.2.
SilValues == {-1, 0, 5, 10, 12}
\* Texture heights fed to the builder.
TexHeights == {1, 10}
\* Radial segment counts fed to the builder.
RValues == 2..MaxR

RECURSIVE SeqsUpTo(_)
SeqsUpTo(n) ==
    IF n = 0 THEN {<<>>}
    ELSE LET shorter == SeqsUpTo(n - 1)
         IN shorter \cup {Append(s, x) : s \in {t \in shorter : Len(t) = n - 1}, x \in SilValues}

Silhouettes == SeqsUpTo(MaxV)

VARIABLES
    silhouette,      \* argument: sequence of fixed-point samples
    r_segments,      \* argument
    texture_height,  \* argument
    pc,              \* "start", "setup", "loop", "returned", "exported", "export_failed", "failed"
    error,           \* "" or the exception that ended generate_mesh
    v_segments,      \* len(silhouette), set at line 104
    offsets_v,       \* arc-length V offsets, one per sample
    u_max,           \* U envelope, one per sample
    u_min,
    tex_map,         \* <<>> before it exists, then <<rows, cols>>
    j,               \* outer loop index (ring)
    i,               \* inner loop index (height)
    vertices,
    uvs,
    faces

vars == <<silhouette, r_segments, texture_height, pc, error, v_segments, offsets_v,
          u_max, u_min, tex_map, j, i, vertices, uvs, faces>>

----------------------------------------------------------------------------
\* Rational arithmetic with NaN.

Abs(x) == IF x < 0 THEN -x ELSE x

RECURSIVE GCD(_, _)
GCD(a, b) == IF b = 0 THEN a ELSE GCD(b, a % b)

NaN == <<0, 0>>
IsNaN(q) == q[2] = 0

Norm(q) ==
    IF q[2] = 0 THEN NaN
    ELSE LET g == GCD(Abs(q[1]), Abs(q[2]))
             sgn == IF q[2] < 0 THEN -1 ELSE 1
         IN <<sgn * (q[1] \div g), sgn * (q[2] \div g)>>

Int2Rat(n) == <<n, 1>>
Half == <<1, 2>>
RatOne == <<1, 1>>
RatZero == <<0, 1>>

RatAdd(p, q) == IF IsNaN(p) \/ IsNaN(q) THEN NaN ELSE Norm(<<p[1] * q[2] + q[1] * p[2], p[2] * q[2]>>)
RatSub(p, q) == IF IsNaN(p) \/ IsNaN(q) THEN NaN ELSE Norm(<<p[1] * q[2] - q[1] * p[2], p[2] * q[2]>>)
RatMul(p, q) == IF IsNaN(p) \/ IsNaN(q) THEN NaN ELSE Norm(<<p[1] * q[1], p[2] * q[2]>>)
\* numpy division: 0/0 is NaN (a warning, no exception).  A non-zero value is
\* never divided by zero in this program, so that case is folded into NaN.
RatDiv(p, q) == IF IsNaN(p) \/ IsNaN(q) \/ q[1] = 0 THEN NaN ELSE Norm(<<p[1] * q[2], p[2] * q[1]>>)
\* IEEE comparisons: false as soon as one side is NaN.
RatLeq(p, q) == ~IsNaN(p) /\ ~IsNaN(q) /\ p[1] * q[2] <= q[1] * p[2]
RatLt(p, q) == ~IsNaN(p) /\ ~IsNaN(q) /\ p[1] * q[2] < q[1] * p[2]

\* The float a fixed-point sample stands for.
Val(k) == Norm(<<k, SCALE>>)

\* floor(sqrt(n)), by bisection on [lo, hi).
RECURSIVE ISqrtIn(_, _, _)
ISqrtIn(n, lo, hi) ==
    IF hi - lo <= 1 THEN lo
    ELSE LET mid == (lo + hi) \div 2
         IN IF mid * mid <= n THEN ISqrtIn(n, mid, hi) ELSE ISqrtIn(n, lo, mid)

ISqrt(n) == ISqrtIn(n, 0, 46341)

RECURSIVE Max(_)
Max(s) ==
    IF Len(s) = 1 THEN s[1]
    ELSE LET m == Max(Tail(s)) IN IF s[1] >= m THEN s[1] ELSE m

----------------------------------------------------------------------------
\* np.cos / np.sin of the angle 2*pi/r_segments*j, held as the fraction j/r of a turn.

Angle(jj, r) == <<jj, r>>

ExactZero == [fn |-> "exact", num |-> 0, den |-> 1]
ExactOne == [fn |-> "exact", num |-> 1, den |-> 1]

Cos(a) ==
    IF a[1] = 0 \/ a[1] = a[2] THEN ExactOne
    ELSE [fn |-> "cos", num |-> a[1], den |-> a[2]]

Sin(a) ==
    IF a[1] = 0 THEN ExactZero
    ELSE [fn |-> "sin", num |-> a[1], den |-> a[2]]

\* The float product t * (k / SCALE): zero as soon as one factor is zero.
Times(t, k) ==
    IF k = 0 \/ t = ExactZero THEN [t |-> ExactZero, s |-> 0]
    ELSE [t |-> t, s |-> k]

----------------------------------------------------------------------------
\* generate_mesh, lines 103-106: the three assertions.

ValidSilhouette(sil) == \A n \in 1..Len(sil) : sil[n] >= 0 /\ sil[n] <= SCALE
\* Variant: the bound on r_segments off by one.
ValidRSegments_OffByOne(r) == r >= 2
ValidRSegments(r) == r >= 3
ValidVSegments(v) == v >= 2

\* Variant: the height step left out of the step length.
V_square_Zero(v) == 0

\* Lines 108-110.  Lengths along the profile are fixed-point integers in units
\* of 1 / (SCALE * v_segments): a sample k is k * v units, the height step
\* 1 / v_segments is SCALE units.
V_square(v) == SCALE * SCALE

\* np.diff(silhouette), in units.
Diff(sil, v) == [n \in 1..(Len(sil) - 1) |-> (sil[n + 1] - sil[n]) * v]

\* np.sqrt(d**2 + v_square), in units / PREC.
StepLen(d, v) == ISqrt((d * d + V_square(v)) * PREC * PREC)

\* np.concatenate(([0], np.cumsum(...))).
RECURSIVE CumSum(_, _)
CumSum(steps, n) == IF n = 0 THEN 0 ELSE CumSum(steps, n - 1) + steps[n]

Cumsums(sil, v) ==
    LET d == Diff(sil, v)
        steps == [n \in 1..Len(d) |-> StepLen(d[n], v)]
    IN [n \in 1..Len(sil) |-> CumSum(steps, n - 1)]

\* cumsums / cumsums[-1].
Offsets_v(sil, v) ==
    LET c == Cumsums(sil, v)
    IN [n \in 1..Len(sil) |-> RatDiv(Int2Rat(c[n]), Int2Rat(c[Len(c)]))]

\* Line 111: the texture's shape, (texture_height, int(pi * texture_height * max)).
TexWidth(h, sil) == (PI_NUM * h * Max(sil)) \div (PI_DEN * SCALE)
TexShape(h, sil) == <<h, TexWidth(h, sil)>>

\* Variant: the factor .5 on the relative radius left out.
U_max_NoHalf(sil, n) == RatAdd(RatDiv(Val(sil[n]), Val(Max(sil))), Half)

\* Lines 112-113.
U_max(sil, n) == RatAdd(RatDiv(RatMul(Half, Val(sil[n])), Val(Max(sil))), Half)
U_min(umax) == RatSub(RatOne, umax)

\* Variant: range(r_segments), without the ring that closes the seam.
NumRings_NoSeam(r) == r

\* Line 123: range(r_segments + 1).
NumRings(r) == r + 1

\* Variant: the height fraction i/v_segments.
Height_Uniform(ii, v) == RatDiv(Int2Rat(ii), Int2Rat(v))

\* Line 127, third component: 2*i/(v_segments-1)-1.
Height(ii, v) == RatSub(RatDiv(Int2Rat(2 * ii), Int2Rat(v - 1)), RatOne)

\* Line 127.
Vertex(a, k, ii, v) == <<Times(Cos(a), k), Times(Sin(a), k), Height(ii, v)>>

\* Variant: the interpolation without its u_min offset.
UCoord_NoOffset(umax, umin, r, jj) ==
    RatMul(RatDiv(RatSub(umax, umin), Int2Rat(r)), Int2Rat(jj))

\* Line 128.
UCoord(umax, umin, r, jj) ==
    RatAdd(RatMul(RatDiv(RatSub(umax, umin), Int2Rat(r)), Int2Rat(jj)), umin)

\* Variants of the guard: the height test left out; the first row skipped.
FaceGuard_NoHeightTest(jj, ii) == jj > 0
FaceGuard_SkipFirstRow(jj, ii) == jj > 0 /\ ii > 1
\* Variant of the second triangle: the previous ring's stride off by one.
Tri2_WrongStride(curr, v) == <<curr, curr - v + 1, curr - v - 1>>

\* Lines 130-132.
FaceGuard(jj, ii) == jj > 0 /\ ii > 0
Tri1(curr, v) == <<curr - v - 1, curr - 1, curr>>
Tri2(curr, v) == <<curr, curr - v, curr - v - 1>>

\* export_ply, lines 54-55.
ExportChecks(vs, us, fs) == Len(vs) > 0 /\ Len(us) > 0 /\ Len(fs) > 0 /\ Len(vs) = Len(us)

----------------------------------------------------------------------------
Init ==
    /\ silhouette \in Silhouettes
    /\ r_segments \in RValues
    /\ texture_height \in TexHeights
    /\ pc = "start"
    /\ error = ""
    /\ v_segments = 0
    /\ offsets_v = <<>>
    /\ u_max = <<>>
    /\ u_min = <<>>
    /\ tex_map = <<>>
    /\ j = 0
    /\ i = 0
    /\ vertices = <<>>
    /\ uvs = <<>>
    /\ faces = <<>>

\* Lines 103-106.  A failed assert raises AssertionError out of generate_mesh.
Validate ==
    /\ pc = "start"
    /\ v_segments' = Len(silhouette)
    /\ IF ValidSilhouette(silhouette) /\ ValidRSegments(r_segments)
          /\ ValidVSegments(Len(silhouette))
       THEN pc' = "setup" /\ error' = error
       ELSE pc' = "failed" /\ error' = "AssertionError"
    /\ UNCHANGED <<silhouette, r_segments, texture_height, offsets_v, u_max, u_min,
                   tex_map, j, i, vertices, uvs, faces>>

\* Lines 108-122: offsets, texture mask, U envelope, empty output lists.
Setup ==
    /\ pc = "setup"
    /\ offsets_v' = Offsets_v(silhouette, v_segments)
    /\ tex_map' = TexShape(texture_height, silhouette)
    /\ u_max' = [n \in 1..v_segments |-> U_max(silhouette, n)]
    /\ u_min' = [n \in 1..v_segments |-> U_min(U_max(silhouette, n))]
    /\ pc' = "loop"
    /\ UNCHANGED <<silhouette, r_segments, texture_height, error, v_segments,
                   j, i, vertices, uvs, faces>>

\* Line 117 on an all-zero silhouette: cv2.drawContours is handed a zero-width
\* image and a contour cast from NaN.  Whether the library raises is not
\* decided by this code; both outcomes are kept (Setup is the other one).
RasterFail ==
    /\ pc = "setup"
    /\ Max(silhouette) = 0
    /\ pc' = "failed"
    /\ error' = "cv2.error"
    /\ UNCHANGED <<silhouette, r_segments, texture_height, v_segments, offsets_v, u_max,
                   u_min, tex_map, j, i, vertices, uvs, faces>>

\* Lines 123-132: one pass of the inner loop body.
Step ==
    /\ pc = "loop"
    /\ j < NumRings(r_segments)
    /\ LET curr_v_idx == Len(vertices)
           angle == Angle(j, r_segments)
           u == UCoord(u_max[i + 1], u_min[i + 1], r_segments, j)
       IN /\ vertices' = Append(vertices, Vertex(angle, silhouette[i + 1], i, v_segments))
          /\ uvs' = Append(uvs, <<u, offsets_v[i + 1]>>)
          /\ faces' = IF FaceGuard(j, i)
                      THEN faces \o <<Tri1(curr_v_idx, v_segments), Tri2(curr_v_idx, v_segments)>>
                      ELSE faces
    /\ IF i + 1 < v_segments
       THEN i' = i + 1 /\ j' = j
       ELSE i' = 0 /\ j' = j + 1
    /\ UNCHANGED <<silhouette, r_segments, texture_height, pc, error, v_segments,
                   offsets_v, u_max, u_min, tex_map>>

\* Line 133.
Return ==
    /\ pc = "loop"
    /\ j >= NumRings(r_segments)
    /\ pc' = "returned"
    /\ UNCHANGED <<silhouette, r_segments, texture_height, error, v_segments, offsets_v,
                   u_max, u_min, tex_map, j, i, vertices, uvs, faces>>

\* main, line 163: export_ply on what generate_mesh returned (asserts at 54-55).
ExportPly ==
    /\ pc = "returned"
    /\ pc' = IF ExportChecks(vertices, uvs, faces) THEN "exported" ELSE "export_failed"
    /\ UNCHANGED <<silhouette, r_segments, texture_height, error, v_segments, offsets_v,
                   u_max, u_min, tex_map, j, i, vertices, uvs, faces>>

Next == Validate \/ Setup \/ RasterFail \/ Step \/ Return \/ ExportPly

Spec == Init /\ [][Next]_vars

----------------------------------------------------------------------------
\* Vocabulary of the properties.

Finished == pc \in {"returned", "exported", "export_failed"}

\* The documented preconditions of the builder, on its arguments.
Precondition ==
    /\ \A n \in 1..Len(silhouette) : silhouette[n] >= 0 /\ silhouette[n] <= SCALE
    /\ r_segments >= 3
    /\ Len(silhouette) >= 2

AllZero == \A n \in 1..Len(silhouette) : silhouette[n] = 0

\* Index (0-based) of grid vertex (ring jj, height ii).
GridIdx(jj, ii) == jj * Len(silhouette) + ii
VertexAt(jj, ii) == vertices[GridIdx(jj, ii) + 1]
UAt(jj, ii) == uvs[GridIdx(jj, ii) + 1][1]

\* C1: once the builder has returned, the vertex list and the UV list have the
\* same length, and that length is (r_segments + 1) * v_segments.
C1_LengthsMatch ==
    Finished =>
        /\ Len(vertices) = Len(uvs)
        /\ Len(vertices) = (r_segments + 1) * Len(silhouette)

C1_Witness ==
    /\ pc = "returned"
    /\ r_segments = MaxR
    /\ Len(silhouette) = MaxV
    /\ Len(vertices) = (MaxR + 1) * MaxV

\* C2: in every state every index of every emitted face lies in
\* [0, len(vertices)), and a pass of the loop with j = 0 or i = 0 emits no face.
FacesInRange ==
    \A n \in 1..Len(faces) : \A c \in 1..3 : faces[n][c] >= 0 /\ faces[n][c] < Len(vertices)

NoFaceAtFirst == (j = 0 \/ i = 0) => faces' = faces

C2_FacesInRange == [](FacesInRange) /\ [][NoFaceAtFirst]_vars

C2_Witness == pc = "loop" /\ j = 2 /\ i = 0 /\ Len(faces) > 0

C4_RejectedBeforeOutput ==
    ~Precondition =>
        /\ pc \in {"start", "failed"}
        /\ (pc = "failed" => error = "AssertionError")
        /\ vertices = <<>>
        /\ uvs = <<>>
        /\ faces = <<>>
        /\ tex_map = <<>>

C4_Witness ==
    /\ pc = "failed"
    /\ error = "AssertionError"
    /\ silhouette = <<5, -1>>
    /\ r_segments = 2

\* C5: with an all-zero silhouette (otherwise valid arguments) the builder
\* never returns a mesh.
C5_DegenerateRejected ==
    (Precondition /\ AllZero) => pc # "returned"

\* C6: the arc-length offsets start at 0, end at 1 and never decrease, and the
\* total length they are divided by is positive.
C6_OffsetsMonotone ==
    offsets_v # <<>> =>
        LET n == Len(offsets_v)
        IN /\ n = Len(silhouette)
           /\ Cumsums(silhouette, n)[n] > 0
           /\ offsets_v[1] = RatZero
           /\ offsets_v[n] = RatOne
           /\ \A k \in 1..(n - 1) : RatLeq(offsets_v[k], offsets_v[k + 1])

C6_Witness ==
    /\ pc = "loop"
    /\ silhouette = <<0, 10, 0>>
    /\ offsets_v = <<RatZero, Half, RatOne>>

C8_CylinderOriginal ==
    (Finished /\ silhouette = <<5, 5>> /\ r_segments = 4) =>
        /\ Len(vertices) = 10
        /\ Len(faces) = 8
        /\ \A n \in 1..Len(vertices) : vertices[n][3] \in {RatZero, RatOne}

\* C8 amended: the silhouette [0.5, 0.5] with r_segments = 4 gives 10 vertices,
\* 8 faces and every z in {-1, 1}: -1 at height index 0 and 1 at height index 1.
C8_CylinderAmended ==
    (Finished /\ silhouette = <<5, 5>> /\ r_segments = 4) =>
        /\ Len(vertices) = 10
        /\ Len(faces) = 8
        /\ \A n \in 1..Len(vertices) :
            vertices[n][3] = (IF (n - 1) % 2 = 0 THEN <<-1, 1>> ELSE <<1, 1>>)

C8_Witness == pc = "returned" /\ silhouette = <<5, 5>> /\ r_segments = 4

\* C9: the face list is, for j = 1..r_segments and i = 1..v_segments-1 in loop
\* order, the two triangles [curr-v-1, curr-1, curr] and [curr, curr-v, curr-v-1]
\* with curr = j*v+i; these are the grid vertices (j-1,i-1), (j,i-1), (j,i) and
\* (j,i), (j-1,i), (j-1,i-1); index j*v+i holds the vertex of ring j and height
\* i; the face count is 2 * r_segments * (v_segments - 1).
C9_QuadTiling ==
    Finished =>
        LET r == r_segments
            v == Len(silhouette)
        IN /\ Len(faces) = 2 * r * (v - 1)
           /\ \A jj \in 1..r : \A ii \in 1..(v - 1) :
                LET p == (jj - 1) * (v - 1) + (ii - 1)
                    curr == jj * v + ii
                    t1 == faces[2 * p + 1]
                    t2 == faces[2 * p + 2]
                IN /\ t1 = <<curr - v - 1, curr - 1, curr>>
                   /\ t2 = <<curr, curr - v, curr - v - 1>>
                   /\ t1 = <<GridIdx(jj - 1, ii - 1), GridIdx(jj, ii - 1), GridIdx(jj, ii)>>
                   /\ t2 = <<GridIdx(jj, ii), GridIdx(jj - 1, ii), GridIdx(jj - 1, ii - 1)>>
           /\ \A jj \in 0..r : \A ii \in 0..(v - 1) :
                VertexAt(jj, ii) = Vertex(Angle(jj, r), silhouette[ii + 1], ii, v)

C9_Witness ==
    /\ pc = "returned"
    /\ r_segments = MaxR
    /\ Len(silhouette) = MaxV
    /\ Len(faces) = 2 * MaxR * (MaxV - 1)

\* C10: what generate_mesh returns always passes export_ply's assertions: the
\* three lists are non-empty, there are at least 2 * r_segments faces, and the
\* vertex and UV lists have the same length.
C10_ExportAccepts ==
    /\ pc # "export_failed"
    /\ Finished =>
        /\ Len(vertices) > 0
        /\ Len(uvs) > 0
        /\ Len(faces) >= 2 * r_segments
        /\ Len(vertices) = Len(uvs)

C10_Witness == pc = "exported" /\ Len(silhouette) = 2 /\ Len(faces) = 2 * r_segments

====
